---------------------------- MODULE Spec2Model ----------------------------
(***************************************************************************)
(* Runtime value representation of rslox (src/rslox/compiled/value.rs).    *)
(*                                                                         *)
(* The heap is a sequence of interior-mutable cells (RefCell<Value>), each *)
(* addressed by its index.  A GcWeakMut<Value> and an RcRc<Value> are both *)
(* handles to such a cell, so both are modelled as the cell's index; what  *)
(* differs is ownership (OpenUpvalue owns its cell, UpvaluePtr and Closure *)
(* do not).  Reclamation is the collector's business and is not modelled:  *)
(* every allocated cell stays live, so unwrap_upgrade always succeeds.     *)
(*                                                                         *)
(* A client (the VM) allocates cells, stores values into them, and calls   *)
(* the operations of Value; `last` records the most recent call, its       *)
(* inputs, its result and the heap it started from.                        *)
(***************************************************************************)
EXTENDS Naturals, Sequences, FiniteSets

VARIABLES heap, last

vars == <<heap, last>>

\* Largest number of heap cells the client allocates.
MaxCells == 2

-----------------------------------------------------------------------------
(* f64, InternedString, Function                                           *)

\* Sample of f64 values, named by their literal; NaN is the IEEE-754 NaN.
Floats == {"0.0", "1.0", "NaN"}

\* f64 == f64 (IEEE-754): NaN is equal to nothing, itself included.
F64Eq(x, y) == x # "NaN" /\ y # "NaN" /\ x = y

\* f64::to_string: the shortest decimal text, no trailing ".0".
F64ToString(x) == CASE x = "0.0" -> "0" [] x = "1.0" -> "1" [] OTHER -> "NaN"

\* Interned string handles, named by the text they intern.
Strings == {"a", "b"}

\* InternedString == InternedString: interned handles are equal iff their text is.
InternedEq(s1, s2) == s1 = s2

\* InternedString::to_owned: the text behind the handle.
to_owned(s) == s

\* The compiled functions (name, arity; the chunk is opaque).
Functions == {[name |-> "f", arity |-> 1], [name |-> "g", arity |-> 0]}

NoFunction == [name |-> "", arity |-> 0]

\* Function::stringify
Function_stringify(f) == "<fn " \o to_owned(f.name) \o ">"

-----------------------------------------------------------------------------
(* enum Value                                                              *)

Blank == [tag |-> "Nil", num |-> "0.0", bool |-> FALSE, str |-> "", fn |-> NoFunction, ref |-> 0, ups |-> <<>>]

Number(x) == [Blank EXCEPT !.tag = "Number", !.num = x]

Bool(b) == [Blank EXCEPT !.tag = "Bool", !.bool = b]

Nil == Blank

String(s) == [Blank EXCEPT !.tag = "String", !.str = s]

Closure(f, us) == [Blank EXCEPT !.tag = "Closure", !.fn = f, !.ups = us]

\* The variant built directly, with no check of the referent.
UpvaluePtr(c) == [Blank EXCEPT !.tag = "UpvaluePtr", !.ref = c]

OpenUpvalue(c) == [Blank EXCEPT !.tag = "OpenUpvalue", !.ref = c]

\* Captured-reference lists over the first k cells.
UpvalueLists(k) == {<<c>> : c \in 1..k}

\* Every value that can be built when k cells are allocated.
Values(k) ==
    {Number(x) : x \in Floats} \cup {Bool(b) : b \in BOOLEAN} \cup {Nil}
    \cup {String(s) : s \in Strings}
    \cup {Closure(f, us) : f \in Functions, us \in UpvalueLists(k)}
    \cup {UpvaluePtr(c) : c \in 1..k} \cup {OpenUpvalue(c) : c \in 1..k}

-----------------------------------------------------------------------------
(* impl PartialEq for Value                                                *)

\* Mutant: reference-like variants compared by the identity of what they point to.
eq_identity(self, other) ==
    CASE self.tag = "Number" /\ other.tag = "Number" -> F64Eq(self.num, other.num)
      [] self.tag = "Bool" /\ other.tag = "Bool" -> self.bool = other.bool
      [] self.tag = "Nil" /\ other.tag = "Nil" -> TRUE
      [] self.tag = "String" /\ other.tag = "String" -> InternedEq(self.str, other.str)
      [] self.tag = "UpvaluePtr" /\ other.tag = "UpvaluePtr" -> self.ref = other.ref
      [] self.tag = "OpenUpvalue" /\ other.tag = "OpenUpvalue" -> self.ref = other.ref
      [] self.tag = "Closure" /\ other.tag = "Closure" -> self.fn = other.fn /\ self.ups = other.ups
      [] OTHER -> FALSE

eq(self, other) ==
    CASE self.tag = "Number" /\ other.tag = "Number" -> F64Eq(self.num, other.num)
      [] self.tag = "Bool" /\ other.tag = "Bool" -> self.bool = other.bool
      [] self.tag = "Nil" /\ other.tag = "Nil" -> TRUE
      [] self.tag = "String" /\ other.tag = "String" -> InternedEq(self.str, other.str)
      [] OTHER -> FALSE

-----------------------------------------------------------------------------
(* impl Value                                                              *)

is_string(self) == self.tag = "String"

is_function(self) == self.tag = "Closure"

is_upvalue_ptr(self) == self.tag = "UpvaluePtr"

\* Mutant: Number(0.0) is falsey as well.
is_falsey_zero(self) ==
    CASE self.tag = "Nil" -> TRUE
      [] self.tag = "Bool" /\ self.bool = FALSE -> TRUE
      [] self.tag = "Number" /\ self.num = "0.0" -> TRUE
      [] OTHER -> FALSE

is_falsey(self) ==
    CASE self.tag = "Nil" -> TRUE
      [] self.tag = "Bool" /\ self.bool = FALSE -> TRUE
      [] OTHER -> FALSE

is_truthy(self) == ~is_falsey(self)

\* The result of a call that never returns: the recursion revisits a cell whose
\* content cannot have changed, so it recurses until the stack overflows.
Overflow == "<stack overflow>"

\* stringify: out is the text (or Overflow), depth the number of recursive calls
\* below the first.  `path` holds the cells the recursion is inside of.
RECURSIVE stringify(_, _, _)
stringify(self, h, path) ==
    CASE self.tag = "Number" -> [out |-> F64ToString(self.num), depth |-> 0]
      [] self.tag = "Bool" -> [out |-> IF self.bool THEN "true" ELSE "false", depth |-> 0]
      [] self.tag = "Nil" -> [out |-> "nil", depth |-> 0]
      [] self.tag = "String" -> [out |-> to_owned(self.str), depth |-> 0]
      [] self.tag = "Closure" -> [out |-> Function_stringify(self.fn), depth |-> 0]
      [] OTHER ->
            IF self.ref \in path
            THEN [out |-> Overflow, depth |-> 1]
            ELSE LET r == stringify(h[self.ref], h, path \cup {self.ref})
                 IN  [out |-> r.out, depth |-> r.depth + 1]

\* Value::upvalue_ptr: the assertion, then the variant.
upvalue_ptr(value, h) ==
    IF is_upvalue_ptr(h[value])
    THEN [ret |-> "panic", val |-> Nil]
    ELSE [ret |-> "ok", val |-> UpvaluePtr(value)]

\* Mutant: the Number is replaced, and failure reported.
RECURSIVE update_number_reports_failure(_, _, _, _)
update_number_reports_failure(self, n, h, borrowed) ==
    CASE self.tag = "Number" -> [ret |-> "false", self |-> Number(n), heap |-> h]
      [] self.tag = "UpvaluePtr" ->
            IF self.ref \in borrowed
            THEN [ret |-> "panic", self |-> self, heap |-> h]
            ELSE LET r == update_number_reports_failure(h[self.ref], n, h, borrowed \cup {self.ref})
                 IN  [ret |-> r.ret, self |-> self,
                      heap |-> [r.heap EXCEPT ![self.ref] = r.self]]
      [] OTHER -> [ret |-> "false", self |-> self, heap |-> h]

\* Mutant: the new Number replaces a copy of the receiver, not the receiver.
RECURSIVE update_number_on_copy(_, _, _, _)
update_number_on_copy(self, n, h, borrowed) ==
    CASE self.tag = "Number" -> [ret |-> "true", self |-> self, heap |-> h]
      [] self.tag = "UpvaluePtr" ->
            IF self.ref \in borrowed
            THEN [ret |-> "panic", self |-> self, heap |-> h]
            ELSE LET r == update_number_on_copy(h[self.ref], n, h, borrowed \cup {self.ref})
                 IN  [ret |-> r.ret, self |-> self,
                      heap |-> [r.heap EXCEPT ![self.ref] = r.self]]
      [] OTHER -> [ret |-> "false", self |-> self, heap |-> h]

\* Mutant: one level of indirection only, the referent is not recursed into.
update_number_one_hop(self, n, h, borrowed) ==
    CASE self.tag = "Number" -> [ret |-> "true", self |-> Number(n), heap |-> h]
      [] self.tag = "UpvaluePtr" ->
            IF self.ref \in borrowed
            THEN [ret |-> "panic", self |-> self, heap |-> h]
            ELSE IF h[self.ref].tag = "Number"
                 THEN [ret |-> "true", self |-> self,
                       heap |-> [h EXCEPT ![self.ref] = Number(n)]]
                 ELSE [ret |-> "false", self |-> self, heap |-> h]
      [] OTHER -> [ret |-> "false", self |-> self, heap |-> h]

\* Mutant: an OpenUpvalue is tunnelled through like an UpvaluePtr.
RECURSIVE update_number_through_open(_, _, _, _)
update_number_through_open(self, n, h, borrowed) ==
    CASE self.tag = "Number" -> [ret |-> "true", self |-> Number(n), heap |-> h]
      [] self.tag \in {"UpvaluePtr", "OpenUpvalue"} ->
            IF self.ref \in borrowed
            THEN [ret |-> "panic", self |-> self, heap |-> h]
            ELSE LET r == update_number_through_open(h[self.ref], n, h, borrowed \cup {self.ref})
                 IN  [ret |-> r.ret, self |-> self,
                      heap |-> [r.heap EXCEPT ![self.ref] = r.self]]
      [] OTHER -> [ret |-> "false", self |-> self, heap |-> h]

\* update_number: ret is "true", "false" or "panic" (RefCell::borrow_mut on a cell
\* that is already mutably borrowed), self the receiver afterwards, heap the heap
\* afterwards.  `borrowed` holds the cells mutably borrowed by the callers.
RECURSIVE update_number(_, _, _, _)
update_number(self, n, h, borrowed) ==
    CASE self.tag = "Number" -> [ret |-> "true", self |-> Number(n), heap |-> h]
      [] self.tag = "UpvaluePtr" ->
            IF self.ref \in borrowed
            THEN [ret |-> "panic", self |-> self, heap |-> h]
            ELSE LET r == update_number(h[self.ref], n, h, borrowed \cup {self.ref})
                 IN  [ret |-> r.ret, self |-> self,
                      heap |-> [r.heap EXCEPT ![self.ref] = r.self]]
      [] OTHER -> [ret |-> "false", self |-> self, heap |-> h]

-----------------------------------------------------------------------------
(* Coercions: impl TryFrom<&Value> for f64 / &bool / InternedString        *)

\* The error slot of a coercion that succeeded.
NoErr == [expected |-> "", found |-> Nil]

\* #[derive(Debug)] on Value, as used by {:?}: whether the rendering returns.  An
\* OpenUpvalue renders its Rc<RefCell<Value>>, that is the content of its cell, and
\* so on through every OpenUpvalue met; a cell that is mutably borrowed renders as
\* "<borrowed>" and is not entered; a weak handle (UpvaluePtr, Closure) is not
\* upgraded.  On an owning cycle the rendering recurses until the stack overflows.
RECURSIVE fmt_debug(_, _, _, _)
fmt_debug(value, h, path, borrowed) ==
    IF value.tag = "OpenUpvalue" /\ value.ref \notin borrowed
    THEN IF value.ref \in path
         THEN Overflow
         ELSE fmt_debug(h[value.ref], h, path \cup {value.ref}, borrowed)
    ELSE "ok"

\* Err(format!("Expected {what}, but found {:?}", found)): the Err, unless the
\* rendering of found never returns.
Expected(what, found, h, borrowed) ==
    [ret |-> IF fmt_debug(found, h, {}, borrowed) = Overflow THEN Overflow ELSE "err",
     expected |-> what, found |-> found]

\* f64::try_from: up is the set of cells whose weak reference was upgraded.
RECURSIVE try_from_f64(_, _, _)
try_from_f64(value, h, path) ==
    CASE value.tag = "Number" -> [ret |-> "ok", num |-> value.num, up |-> path, err |-> NoErr]
      [] value.tag = "UpvaluePtr" ->
            IF value.ref \in path
            THEN [ret |-> Overflow, num |-> "NaN", up |-> path, err |-> NoErr]
            ELSE try_from_f64(h[value.ref], h, path \cup {value.ref})
      [] OTHER ->
            LET e == Expected("Value::Number", value, h, {})
            IN  [ret |-> e.ret, num |-> "NaN", up |-> path, err |-> e]

\* <&mut bool>::try_from: the exact variant only; the caller holds the mutable
\* borrow of the cells in `borrowed`.
try_from_bool_mut(value, h, borrowed) ==
    CASE value.tag = "Bool" -> [ret |-> "ok", bool |-> value.bool, up |-> {}, err |-> NoErr]
      [] OTHER ->
            LET e == Expected("Value::Bool", value, h, borrowed)
            IN  [ret |-> e.ret, bool |-> FALSE, up |-> {}, err |-> e]

\* <&bool>::try_from: the exact variant only.
try_from_bool(value, h) ==
    CASE value.tag = "Bool" -> [ret |-> "ok", bool |-> value.bool, up |-> {}, err |-> NoErr]
      [] OTHER ->
            LET e == Expected("Value::Bool", value, h, {})
            IN  [ret |-> e.ret, bool |-> FALSE, up |-> {}, err |-> e]

\* InternedString::try_from: the exact variant only.
try_from_string(value, h) ==
    CASE value.tag = "String" -> [ret |-> "ok", str |-> value.str, up |-> {}, err |-> NoErr]
      [] OTHER ->
            LET e == Expected("Value::String", value, h, {})
            IN  [ret |-> e.ret, str |-> "", up |-> {}, err |-> e]

-----------------------------------------------------------------------------
(* The client: cells, stores and calls                                     *)

Cells == 1..Len(heap)

Vals == Values(Len(heap))

NoCall == [op |-> "none", a |-> Nil, n |-> "0.0", ref |-> 0, res |-> [ret |-> "ok"], pre |-> <<>>]

\* A fatal assertion, a BorrowMutError or a stack overflow ends the process.
Aborted == last.res.ret \in {"panic", Overflow}

\* The client is between two operations: it holds no result.
Idle == last.op = "none"

\* Reading a cell through a closure's captured reference:
\* upvalues[i].unwrap_upgrade().borrow().clone()
ReadVia(cl, i, h) == h[cl.ups[i]]

Init ==
    /\ heap = <<>>
    /\ last = NoCall

\* A new cell is allocated holding v (values are built directly from the variants).
Alloc(v) ==
    /\ Idle
    /\ Len(heap) < MaxCells
    /\ heap' = Append(heap, v)
    /\ last' = [NoCall EXCEPT !.op = "alloc", !.a = v, !.ref = Len(heap) + 1]

\* *cell.borrow_mut() = v, through any handle to the cell.
Store(c, v) ==
    /\ Idle
    /\ heap' = [heap EXCEPT ![c] = v]
    /\ last' = [NoCall EXCEPT !.op = "store", !.a = v, !.ref = c]

\* Value::upvalue_ptr(weak reference to cell c)
CallUpvaluePtr(c) ==
    /\ Idle
    /\ last' = [NoCall EXCEPT !.op = "upvalue_ptr", !.ref = c, !.res = upvalue_ptr(c, heap), !.pre = heap]
    /\ UNCHANGED heap

\* v.update_number(n) on a value v held by the caller (a stack slot).
CallUpdateNumber(v, n) ==
    /\ Idle
    /\ LET r == update_number(v, n, heap, {})
       IN  /\ heap' = r.heap
           /\ last' = [NoCall EXCEPT !.op = "update_number", !.a = v, !.n = n,
                                     !.res = [ret |-> r.ret, self |-> r.self], !.pre = heap]

\* cl's captured reference i is upgraded and update_number(n) called on the cell's
\* content in place: upvalues[i].unwrap_upgrade().borrow_mut().update_number(n)
CallUpdateNumberVia(cl, n) ==
    /\ Idle
    /\ LET c == cl.ups[1]
           r == update_number(heap[c], n, heap, {c})
       IN  /\ heap' = [r.heap EXCEPT ![c] = r.self]
           /\ last' = [NoCall EXCEPT !.op = "update_via", !.a = cl, !.n = n, !.ref = c,
                                     !.res = [ret |-> r.ret, self |-> r.self], !.pre = heap]

\* The pure operations are called on the content of a cell, borrowed immutably:
\* cell.borrow().stringify() and so on.
CallStringify(c) ==
    /\ Idle
    /\ LET r == stringify(heap[c], heap, {})
       IN  last' = [NoCall EXCEPT !.op = "stringify", !.a = heap[c], !.ref = c,
                      !.res = [ret |-> IF r.out = Overflow THEN Overflow ELSE "ok",
                               out |-> r.out, depth |-> r.depth]]
    /\ UNCHANGED heap

\* *c.borrow() == *d.borrow()
CallEq(c, d) ==
    /\ Idle
    /\ last' = [NoCall EXCEPT !.op = "eq", !.a = heap[c], !.ref = c,
                   !.res = [ret |-> "ok", eq |-> eq(heap[c], heap[d]), other |-> heap[d]]]
    /\ UNCHANGED heap

CallTruthiness(c) ==
    /\ Idle
    /\ last' = [NoCall EXCEPT !.op = "truthiness", !.a = heap[c], !.ref = c,
                   !.res = [ret |-> "ok", truthy |-> is_truthy(heap[c]),
                            falsey |-> is_falsey(heap[c])]]
    /\ UNCHANGED heap

CallTryFromF64(c) ==
    /\ Idle
    /\ last' = [NoCall EXCEPT !.op = "try_from_f64", !.a = heap[c], !.ref = c,
                   !.res = try_from_f64(heap[c], heap, {})]
    /\ UNCHANGED heap

CallTryFromBool(c) ==
    /\ Idle
    /\ last' = [NoCall EXCEPT !.op = "try_from_bool", !.a = heap[c], !.ref = c,
                   !.res = try_from_bool(heap[c], heap)]
    /\ UNCHANGED heap

\* <&mut bool>::try_from(&mut *cell.borrow_mut())
CallTryFromBoolMut(c) ==
    /\ Idle
    /\ last' = [NoCall EXCEPT !.op = "try_from_bool_mut", !.a = heap[c], !.ref = c,
                   !.res = try_from_bool_mut(heap[c], heap, {c})]
    /\ UNCHANGED heap

CallTryFromString(c) ==
    /\ Idle
    /\ last' = [NoCall EXCEPT !.op = "try_from_string", !.a = heap[c], !.ref = c,
                   !.res = try_from_string(heap[c], heap)]
    /\ UNCHANGED heap

\* The client has looked at the result of its last operation and goes on; after
\* an abort there is nothing to go on with.
Resume ==
    /\ ~Idle
    /\ ~Aborted
    /\ last' = NoCall
    /\ UNCHANGED heap

Next ==
    \/ \E v \in Vals : Alloc(v)
    \/ \E c \in Cells, v \in Vals : Store(c, v)
    \/ \E c \in Cells : CallUpvaluePtr(c)
    \/ \E v \in Vals, n \in Floats : CallUpdateNumber(v, n)
    \/ \E cl \in {v \in Vals : v.tag = "Closure"}, n \in Floats : CallUpdateNumberVia(cl, n)
    \/ \E c \in Cells : CallStringify(c)
    \/ \E c \in Cells, d \in Cells : CallEq(c, d)
    \/ \E c \in Cells : CallTruthiness(c)
    \/ \E c \in Cells : CallTryFromF64(c)
    \/ \E c \in Cells : CallTryFromBool(c)
    \/ \E c \in Cells : CallTryFromBoolMut(c)
    \/ \E c \in Cells : CallTryFromString(c)
    \/ Resume

Spec == Init /\ [][Next]_vars

-----------------------------------------------------------------------------
(* Properties                                                              *)

Closures == {v \in Vals : v.tag = "Closure"}

\* The cells an UpvaluePtr chain starting at v passes through, in order.
RECURSIVE PtrPath(_, _, _)
PtrPath(v, h, fuel) ==
    IF v.tag = "UpvaluePtr" /\ fuel > 0
    THEN <<v.ref>> \o PtrPath(h[v.ref], h, fuel - 1)
    ELSE <<>>

\* The value an UpvaluePtr chain starting at v ends in; a chain that runs into a
\* cycle ends in no other variant, and Terminal is then an UpvaluePtr.
Terminal(v, h) ==
    LET p == PtrPath(v, h, Len(h) + 1)
    IN  IF p = <<>> THEN v ELSE h[p[Len(p)]]

ChainLen(v, h) == Len(PtrPath(v, h, Len(h) + 1))

IsUpdate == last.op \in {"update_number", "update_via"}

\* The receiver of the last update_number, before and after the call.
RecvBefore == IF last.op = "update_via" THEN last.pre[last.ref] ELSE last.a

RecvAfter == last.res.self

Failing == {"Bool", "Nil", "String", "Closure", "OpenUpvalue"}

\* C1: in every reachable state no UpvaluePtr stored on the heap has a referent
\* cell whose content is itself an UpvaluePtr, and Value::upvalue_ptr aborts
\* whenever its referent is an UpvaluePtr.
C1_NoNestedUpvaluePtr ==
    /\ \A c \in Cells :
          heap[c].tag = "UpvaluePtr" => heap[heap[c].ref].tag # "UpvaluePtr"
    /\ (last.op = "upvalue_ptr" /\ last.res.ret = "ok")
          => heap[last.res.val.ref].tag # "UpvaluePtr"
    /\ (last.op = "upvalue_ptr" /\ is_upvalue_ptr(last.pre[last.ref]))
          => last.res.ret = "panic"

\* C2: update_number(b) called through a closure's captured reference to a cell
\* holding a Number returns true, and the cell then reads Number(b).
C2_UpdateThroughCapture ==
    (last.op = "update_via" /\ last.pre[last.ref].tag = "Number")
        => /\ last.res.ret = "true"
           /\ ReadVia(last.a, 1, heap) = Number(last.n)
           /\ heap[last.ref] = Number(last.n)

C2_Witness ==
    /\ last.op = "update_via"
    /\ last.pre[last.ref] = Number("1.0")
    /\ last.n = "0.0"
    /\ heap[last.ref] = Number("0.0")
    /\ \E c \in Cells : heap[c] = OpenUpvalue(last.ref)

\* C3: update_number(n) on a chain of N >= 0 UpvaluePtr ending in a Number returns
\* true, the terminal Number becomes Number(n), and every pointer on the chain,
\* the receiver included when N > 0, is unchanged.
C3_ChainUpdate ==
    (IsUpdate /\ Terminal(RecvBefore, last.pre).tag = "Number")
        => LET p == PtrPath(RecvBefore, last.pre, Len(last.pre) + 1)
               N == Len(p)
           IN  /\ last.res.ret = "true"
               /\ IF N = 0
                  THEN RecvAfter = Number(last.n)
                  ELSE /\ heap[p[N]] = Number(last.n)
                       /\ RecvAfter = RecvBefore
               /\ \A i \in 1..N : i < N => heap[p[i]] = last.pre[p[i]]

C3_Witness ==
    /\ last.op = "update_number"
    /\ ChainLen(last.a, last.pre) = 2
    /\ Terminal(last.a, last.pre) = Number("1.0")
    /\ last.n = "NaN"
    /\ last.res.ret = "true"
    /\ Terminal(last.a, heap) = Number("NaN")

\* C4: update_number on a Bool, Nil, String, Closure or OpenUpvalue, or on an
\* UpvaluePtr chain ending in one of them, returns false and leaves the receiver
\* and every heap cell as they were.
C4_FailsWithoutMutation ==
    (IsUpdate /\ Terminal(RecvBefore, last.pre).tag \in Failing)
        => /\ last.res.ret = "false"
           /\ RecvAfter = RecvBefore
           /\ heap = last.pre

C4_Witness ==
    /\ last.op = "update_number"
    /\ last.a.tag = "UpvaluePtr"
    /\ Terminal(last.a, last.pre).tag = "OpenUpvalue"
    /\ last.pre[Terminal(last.a, last.pre).ref].tag = "Number"
    /\ last.res.ret = "false"

\* C5: the f64 coercion succeeds with x on Number(x) and on an UpvaluePtr chain
\* ending in Number(x); the bool and string coercions succeed exactly on the Bool
\* and String variants and are a recoverable Err on every other one, an UpvaluePtr
\* to a Bool or String included, and upgrade no reference.
C5_CoercionAsymmetry ==
    /\ (last.op = "try_from_f64" /\ Terminal(last.a, heap).tag = "Number")
          => last.res.ret = "ok" /\ last.res.num = Terminal(last.a, heap).num
    /\ last.op \in {"try_from_bool", "try_from_bool_mut"}
          => /\ last.res.up = {}
             /\ IF last.a.tag = "Bool"
                THEN last.res.ret = "ok" /\ last.res.bool = last.a.bool
                ELSE last.res.ret = "err" /\ last.res.err.found = last.a
    /\ last.op = "try_from_string"
          => /\ last.res.up = {}
             /\ IF last.a.tag = "String"
                THEN last.res.ret = "ok" /\ last.res.str = last.a.str
                ELSE last.res.ret = "err" /\ last.res.err.found = last.a

\* C6: right after a write of w through a captured reference (a store of w, or a
\* successful update_number(w)), every closure that captured the same cell reads
\* w through its own captured reference.
C6_SharedWrites ==
    /\ last.op = "store"
          => \A cl \in Closures : cl.ups[1] = last.ref => ReadVia(cl, 1, heap) = last.a
    /\ (last.op = "update_via" /\ last.res.ret = "true")
          => \A cl \in Closures :
                cl.ups[1] = last.ref =>
                    LET r == try_from_f64(ReadVia(cl, 1, heap), heap, {})
                    IN  r.ret = "ok" /\ r.num = last.n

C6_Witness ==
    /\ last.op = "update_via"
    /\ last.res.ret = "true"
    /\ last.pre[last.ref] = Number("0.0")
    /\ last.n = "1.0"
    /\ \E cl \in Closures :
          /\ cl # last.a
          /\ cl.ups[1] = last.ref
          /\ ReadVia(cl, 1, heap) = Number("1.0")
    /\ \E c \in Cells : heap[c] = OpenUpvalue(last.ref)

\* Number content compared as f64 compares it, String content as the intern table
\* compares it.
SameContent(a, b) ==
    CASE a.tag = "Number" -> a.num = b.num /\ a.num # "NaN"
      [] a.tag = "Bool" -> a.bool = b.bool
      [] a.tag = "String" -> a.str = b.str
      [] OTHER -> TRUE

\* C7: == is true exactly when both sides have the same tag among Number, Bool,
\* Nil, String and equal content, and false whenever a side is a Closure,
\* UpvaluePtr or OpenUpvalue, the two sides being the same value included.
C7_Equality ==
    last.op = "eq"
        => LET a == last.a
               b == last.res.other
           IN  /\ last.res.eq = (/\ a.tag = b.tag
                                 /\ a.tag \in {"Number", "Bool", "Nil", "String"}
                                 /\ SameContent(a, b))
               /\ (a.tag \in {"Closure", "UpvaluePtr", "OpenUpvalue"}
                     \/ b.tag \in {"Closure", "UpvaluePtr", "OpenUpvalue"})
                      => last.res.eq = FALSE

C7_Witness ==
    /\ last.op = "eq"
    /\ last.a.tag = "UpvaluePtr"
    /\ last.res.other = last.a
    /\ last.res.eq = FALSE

\* C8: stringify returns on every value of every reachable heap, after at most two
\* levels of recursion.
C8_StringifyBounded ==
    last.op = "stringify" => last.res.ret = "ok" /\ last.res.depth <= 2

\* The cells owned, directly or through the cells it owns, by the content of c.
RECURSIVE Owned(_, _, _)
Owned(c, h, fuel) ==
    IF h[c].tag = "OpenUpvalue" /\ fuel > 0
    THEN {h[c].ref} \cup Owned(h[c].ref, h, fuel - 1)
    ELSE {}

\* C9: the graph of owning references (a cell owns the value in it, an OpenUpvalue
\* owns its cell) has no cycle.
C9_NoStrongCycle == \A c \in Cells : c \notin Owned(c, heap, Len(heap))

\* C10: is_truthy is the negation of is_falsey, and is_falsey holds exactly of Nil
\* and Bool(false), whatever an UpvaluePtr or OpenUpvalue points at.
C10_Truthiness ==
    last.op = "truthiness"
        => /\ last.res.truthy = ~last.res.falsey
           /\ last.res.falsey = (last.a = Nil \/ last.a = Bool(FALSE))

C10_Witness ==
    /\ last.op = "truthiness"
    /\ last.a.tag \in {"UpvaluePtr", "OpenUpvalue"}
    /\ heap[last.a.ref] = Bool(FALSE)
    /\ last.res.truthy

=============================================================================
